---- MODULE Spec2Model ----
(***************************************************************************)
(* Change-triggered commit pipeline of the knowledge-base template:        *)
(*   scripts/watch_changes.py  ChangeHandler (debounce) + watch_directory  *)
(*   scripts/auto_commit.py    status / stage / commit / push              *)
(*                                                                         *)
(* Time is discrete (one unit = the 1 second polling sleep).  Computation  *)
(* is instantaneous: time advances only while every dispatcher thread is   *)
(* blocked (on the empty event queue or in time.sleep(1)).                 *)
(*                                                                         *)
(* watchdog's Observer is one thread that takes events off a FIFO queue    *)
(* and calls handler.dispatch(event) -> on_any_event(event) synchronously, *)
(* so _start_timer runs on that dispatcher thread and the events that       *)
(* arrive meanwhile stay in the queue.                                     *)
(***************************************************************************)
EXTENDS Integers, Sequences, FiniteSets, TLC

\* ------------------------------------------------------------------ bounds
MaxTime == 12
MaxEvents == 3
MaxCycles == 2
\* events in the runs that are checked for progress, and in those with an interrupt
MaxFairEvents == 2
MaxIntEvents == 1

\* --debounce (seconds), at its default
debounce_time == 5

\* ------------------------------------------------------------- event source
\* paths are sequences of characters; "/" is os.sep
PathDocsA == <<"d", "/", "a">>
PathDocsHiddenA == <<"d", "/", ".", "a">>
PathHiddenDirA == <<".", "g", "/", "a">>
PathDocsSub == <<"d", "/", "s">>
PathDocsHiddenSub == <<"d", "/", ".", "s">>

FsEventKinds ==
  { [src_path |-> PathDocsA, is_directory |-> FALSE, event_type |-> "modified"],
    [src_path |-> PathDocsHiddenA, is_directory |-> FALSE, event_type |-> "created"],
    [src_path |-> PathHiddenDirA, is_directory |-> FALSE, event_type |-> "deleted"],
    [src_path |-> PathDocsSub, is_directory |-> TRUE, event_type |-> "created"],
    [src_path |-> PathDocsHiddenSub, is_directory |-> TRUE, event_type |-> "modified"] }

\* os.path.basename: what follows the last "/"
RECURSIVE basename(_)
basename(p) ==
  IF p = <<>> THEN <<>>
  ELSE IF \E i \in 1..Len(p) : p[i] = "/"
       THEN basename(Tail(p))
       ELSE p

\* str.startswith
startswith(s, c) == Len(s) >= 1 /\ s[1] = c

\* the early return of on_any_event
IgnoredPathDot(event) == event.is_directory \/ startswith(event.src_path, ".")
Ignored(event) == event.is_directory \/ startswith(basename(event.src_path), ".")

\* a qualifying event of the glossary: not a directory event, and the last
\* path component does not begin with a dot
LastSlash(p) ==
  IF \E i \in 1..Len(p) : p[i] = "/"
  THEN CHOOSE i \in 1..Len(p) : p[i] = "/" /\ \A j \in (i+1)..Len(p) : p[j] # "/"
  ELSE 0
HiddenName(p) == LastSlash(p) < Len(p) /\ p[LastSlash(p) + 1] = "."
Qualifying(e) == ~e.is_directory /\ ~HiddenName(e.src_path)

\* ---------------------------------------------------------- auto_commit.py
Whitespace == {" ", "\n"}

RECURSIVE lstrip(_)
lstrip(s) == IF s # <<>> /\ Head(s) \in Whitespace THEN lstrip(Tail(s)) ELSE s

RECURSIVE rstrip(_)
rstrip(s) ==
  IF s # <<>> /\ s[Len(s)] \in Whitespace THEN rstrip(SubSeq(s, 1, Len(s) - 1)) ELSE s

\* str.strip
strip(s) == rstrip(lstrip(s))

\* Python's None as a command result
None == [none |-> TRUE, out |-> <<>>]

\* run_command: the stripped stdout, or None when the command exits non-zero
run_command_unchecked(proc) == [none |-> FALSE, out |-> strip(proc.stdout)]
run_command(proc) ==
  IF proc.returncode = 0 THEN [none |-> FALSE, out |-> strip(proc.stdout)] ELSE None

\* `if status:` -- neither None nor the empty string
Truthy(r) == ~r.none /\ r.out # <<>>

\* what the git client can answer
GitStatusRuns(isDirty) ==
  { [returncode |-> 0, stdout |-> IF isDirty THEN <<" ", "M", "\n">> ELSE <<>>],
    [returncode |-> 128, stdout |-> <<>>] }
GitAddRuns == { [returncode |-> 0, stdout |-> <<>>], [returncode |-> 128, stdout |-> <<>>] }
GitCommitRuns ==
  { [returncode |-> 0, stdout |-> <<"c", "\n">>], [returncode |-> 1, stdout |-> <<"n", "\n">>] }
GitPushRuns == { [returncode |-> 0, stdout |-> <<>>], [returncode |-> 1, stdout |-> <<>>] }

\* the observer threads that call the handler
ThreadsTwo == {"observer", "observer2"}
Threads == {"observer"}

VARIABLES
  now,            \* wall clock, datetime.now()
  queue,          \* the observer's event queue
  nev,            \* number of filesystem events so far
  pc,             \* per dispatcher thread: where it is
  wake,           \* per dispatcher thread: end of its time.sleep(1)
  last_modified,  \* ChangeHandler.last_modified
  timer_running,  \* ChangeHandler.timer_running
  evlog,          \* history: occurrence times of the qualifying events
  fires,          \* history: the calls of _trigger_commit
  acpc,           \* auto_commit.py process: where it is
  commit_only,    \* args.commit_only
  status,         \* result of get_git_status()
  cmds,           \* git commands run in the current cycle, in order
  cycles,         \* iterations of the interval loop so far
  exit_code,      \* exit status of the auto_commit.py process (-1: running)
  dirty0,         \* history: the working tree was dirty when the process started
  dirty,          \* the working tree has uncommitted changes
  ahead,          \* the branch has a commit that was not pushed
  main,           \* watch_directory, the main thread: where it is
  stopped,        \* observer.stop() was called: the subscription is stopped
  intr_fires,     \* history: Len(fires) when an interrupt met a pending wait, else -1
  evmax,          \* how many filesystem events the run is given
  trigger_log,    \* the last record _trigger_commit logged about the script's run
  hpc,            \* post_gen_project.py: the statement it is at
  options,        \* the cookiecutter options the hook was rendered with
  project,        \* the files of the generated project
  doc_files,      \* create_document.py: the documents under docs_dir
  returns,        \* history: what the calls of create_document returned
  gpc,            \* generate_categories.py: where main() is
  md_files,       \* the markdown files that docs_path.glob yields, in order
  categories,     \* scan_docs_directory: category name -> list of (path, title)
  pages,          \* generate_category_pages: category name -> lines of its page
  index_counts    \* the index page: category name -> the count it shows

wvars == <<now, queue, nev, pc, wake, last_modified, timer_running, evlog, fires>>
avars == <<acpc, commit_only, status, cmds, cycles, exit_code, dirty0>>
rvars == <<dirty, ahead>>
mvars == <<main, stopped, intr_fires, evmax, trigger_log>>
tvars == <<hpc, options, project, doc_files, returns, gpc, md_files, categories,
           pages, index_counts>>
vars == <<wvars, avars, rvars, mvars, tvars>>

\* ChangeHandler.__init__ and an auto_commit.py process that was not started
InitHandler ==
  /\ now = 0
  /\ queue = <<>>
  /\ nev = 0
  /\ pc = [t \in Threads |-> "idle"]
  /\ wake = [t \in Threads |-> 0]
  /\ last_modified = 0
  /\ timer_running = FALSE
  /\ evlog = <<>>
  /\ fires = <<>>
  /\ main = "loop"
  /\ stopped = FALSE
  /\ intr_fires = -1
  /\ trigger_log = "nothing"

\* no auto_commit.py process yet, a clean working tree
InitScript ==
  /\ acpc = "off"
  /\ commit_only = TRUE
  /\ status = None
  /\ cmds = <<>>
  /\ cycles = 0
  /\ exit_code = -1
  /\ dirty0 = FALSE
  /\ dirty = FALSE
  /\ ahead = FALSE

\* the template's other scripts are not running
HookOff ==
  /\ hpc = "off"
  /\ options = <<>>
  /\ project = {}
CreatorOff ==
  /\ doc_files = {}
  /\ returns = <<>>
CategoriesOff ==
  /\ gpc = "off"
  /\ md_files = <<>>
  /\ categories = <<>>
  /\ pages = <<>>
  /\ index_counts = <<>>
ToolsOff == HookOff /\ CreatorOff /\ CategoriesOff

Init == InitHandler /\ InitScript /\ ToolsOff /\ evmax = MaxEvents
InitFair == InitHandler /\ InitScript /\ ToolsOff /\ evmax = MaxFairEvents
InitInt == InitHandler /\ InitScript /\ ToolsOff /\ evmax = MaxIntEvents

\* ------------------------------------------------------------ the watcher
\* the filesystem reports a change: the emitter puts it on the queue
FsEvent ==
  /\ nev < evmax
  /\ ~stopped
  /\ main \notin {"start", "failed"}
  /\ \E k \in FsEventKinds :
       LET e == [src_path |-> k.src_path, is_directory |-> k.is_directory,
                 event_type |-> k.event_type, at |-> now]
       IN /\ queue' = Append(queue, e)
          /\ evlog' = IF Qualifying(e) THEN Append(evlog, now) ELSE evlog
          /\ dirty' = IF e.is_directory THEN dirty ELSE TRUE
  /\ nev' = nev + 1
  /\ UNCHANGED <<tvars, now, pc, wake, last_modified, timer_running, fires, avars, ahead, mvars>>

\* self.last_modified = datetime.now()
KeepLastModified(event) == last_modified
NewLastModified(event) == now

\* on_any_event up to the read of timer_running: the dispatcher takes the next
\* event off the queue and calls the handler
on_any_event(t) ==
  /\ pc[t] = "idle"
  /\ ~stopped
  /\ queue # <<>>
  /\ queue' = Tail(queue)
  /\ LET event == Head(queue)
     IN IF Ignored(event)
        THEN UNCHANGED <<last_modified, pc>>
        ELSE /\ last_modified' = NewLastModified(event)
             /\ pc' = [pc EXCEPT ![t] = IF ~timer_running THEN "arm" ELSE "idle"]
  /\ UNCHANGED <<tvars, now, nev, wake, timer_running, evlog, fires, avars, rvars, mvars>>

\* on_any_event, the body of `if not self.timer_running`
ArmTimer(t) ==
  /\ pc[t] = "arm"
  /\ timer_running' = TRUE
  /\ pc' = [pc EXCEPT ![t] = "poll"]
  /\ UNCHANGED <<tvars, now, queue, nev, wake, last_modified, evlog, fires, avars, rvars, mvars>>

\* time_since_last_change >= self.debounce_time
SettledEarly(time_since_last_change) == time_since_last_change >= debounce_time - 1
Settled(time_since_last_change) == time_since_last_change >= debounce_time

\* _start_timer, one pass of the loop: fire, or sleep one second
PollTimer(t) ==
  /\ pc[t] = "poll"
  /\ IF Settled(now - last_modified)
     THEN /\ fires' = Append(fires, [at |-> now, last |-> last_modified, seen |-> Len(evlog)])
          /\ pc' = [pc EXCEPT ![t] = "run"]
          /\ acpc' = "main"
          /\ commit_only' = TRUE
          /\ cmds' = <<>>
          /\ status' = None
          /\ exit_code' = -1
          /\ UNCHANGED <<wake, cycles, dirty0>>
     ELSE /\ pc' = [pc EXCEPT ![t] = "sleep"]
          /\ wake' = [wake EXCEPT ![t] = now + 1]
          /\ UNCHANGED <<fires, avars>>
  /\ UNCHANGED <<tvars, now, queue, nev, last_modified, timer_running, evlog, rvars, mvars>>

\* time.sleep(1) returns
WakeUp(t) ==
  /\ pc[t] = "sleep"
  /\ now >= wake[t]
  /\ pc' = [pc EXCEPT ![t] = "poll"]
  /\ UNCHANGED <<tvars, now, queue, nev, wake, last_modified, timer_running, evlog, fires,
                 avars, rvars, mvars>>

\* `except subprocess.CalledProcessError`: no exit status of the script gets
\* past _trigger_commit
PropagatesNonZero(code) == code # 0
Propagates(code) == FALSE

\* subprocess.run(check=True) raises CalledProcessError on a non-zero exit
\* status: logger.info after the call, or logger.error in the except clause
TriggerLogAlwaysInfo(code) == "completed successfully"
TriggerLog(code) == IF code = 0 THEN "completed successfully" ELSE "failed"

\* self.timer_running = False
TimerRunningLeftSet == timer_running
TimerRunningReset == FALSE

\* subprocess.run([..., "--commit-only"], check=True) has no timeout: it
\* returns when the child has exited
SubprocessReturnedOrTimedOut == acpc \in {"exited", "hung"}
SubprocessReturned == acpc = "exited"

\* subprocess.run returns, _trigger_commit returns, the timer is retired
TimerDone(t) ==
  /\ pc[t] = "run"
  /\ SubprocessReturned
  /\ IF Propagates(exit_code)
     THEN /\ pc' = [pc EXCEPT ![t] = "crashed"]
          /\ UNCHANGED timer_running
     ELSE /\ pc' = [pc EXCEPT ![t] = "idle"]
          /\ timer_running' = TimerRunningReset
  /\ acpc' = "off"
  /\ trigger_log' = TriggerLog(exit_code)
  /\ UNCHANGED <<tvars, now, queue, nev, wake, last_modified, evlog, fires,
                 commit_only, status, cmds, cycles, exit_code, dirty0, rvars,
                 main, stopped, intr_fires, evmax>>

\* watch_directory: the main thread sleeps in its loop, or has returned, or
\* waits in observer.join() for a dispatcher that still runs
MainBlocked ==
  \/ main \in {"loop", "exited", "failed"}
  \/ main = "join" /\ \E t \in Threads : pc[t] # "stopped"

\* a dispatcher thread that cannot take a step until something else happens
Blocked(t) ==
  \/ pc[t] = "idle" /\ queue = <<>> /\ ~stopped
  \/ pc[t] = "sleep" /\ now < wake[t]
  \/ pc[t] \in {"stopped", "crashed", "unstarted"}
  \/ pc[t] = "run" /\ acpc = "hung"

Tick ==
  /\ now < MaxTime
  /\ \A t \in Threads : Blocked(t)
  /\ MainBlocked
  /\ now' = now + 1
  /\ UNCHANGED <<tvars, queue, nev, pc, wake, last_modified, timer_running, evlog, fires,
                 avars, rvars, mvars>>

\* the dispatcher threads that are inside _start_timer and have not fired yet
PendingWait == \E t \in Threads : pc[t] \in {"arm", "poll", "sleep"}

\* `except KeyboardInterrupt:` -- what the main thread does next
AfterInterruptSkipStop == "join"
AfterInterrupt == "stop"

\* an interrupt signal reaches the main thread in its `while True` loop
KeyboardInterrupt ==
  /\ main = "loop"
  /\ main' = AfterInterrupt
  /\ intr_fires' = IF PendingWait THEN Len(fires) ELSE -1
  /\ UNCHANGED <<tvars, wvars, avars, rvars, stopped, evmax, trigger_log>>

\* what follows observer.stop()
AfterStopNoJoin == "exited"
AfterStop == "join"

\* observer.stop(): the stop flag is set, no further event is delivered
ObserverStop ==
  /\ main = "stop"
  /\ stopped' = TRUE
  /\ main' = AfterStop
  /\ UNCHANGED <<tvars, wvars, avars, rvars, intr_fires, evmax, trigger_log>>

\* the dispatcher's run loop ends once the stop flag is set and no handler runs
DispatcherExit(t) ==
  /\ pc[t] = "idle"
  /\ stopped
  /\ pc' = [pc EXCEPT ![t] = "stopped"]
  /\ UNCHANGED <<tvars, now, queue, nev, wake, last_modified, timer_running, evlog, fires,
                 avars, rvars, mvars>>

\* observer.join() returns and watch_directory returns
ObserverJoin ==
  /\ main = "join"
  /\ \A t \in Threads : pc[t] = "stopped"
  /\ main' = "exited"
  /\ UNCHANGED <<tvars, wvars, avars, rvars, stopped, intr_fires, evmax, trigger_log>>

\* the auto_commit.py child cannot start (script missing, log file not
\* writable): it exits non-zero and subprocess.run(check=True) raises
ScriptFailsToStart ==
  /\ acpc = "main"
  /\ \E t \in Threads : pc[t] = "run"
  /\ acpc' = "exited"
  /\ exit_code' = 2
  /\ UNCHANGED <<tvars, wvars, commit_only, status, cmds, cycles, dirty0, rvars, mvars>>

\* a git command of the child does not return (a credential prompt, a dead
\* remote): run_command's subprocess.run has no timeout either
CommandHangs ==
  /\ acpc \in {"status", "stage", "commit", "push"}
  /\ \E t \in Threads : pc[t] = "run"
  /\ acpc' = "hung"
  /\ UNCHANGED <<tvars, wvars, commit_only, status, cmds, cycles, exit_code, dirty0, rvars, mvars>>

\* -------------------------------------------------------- auto_commit.py
\* __main__: parse the arguments and take the --commit-only branch or the loop
Main ==
  /\ acpc = "main"
  /\ acpc' = "status"
  /\ dirty0' = dirty
  /\ UNCHANGED <<tvars, wvars, commit_only, status, cmds, cycles, exit_code, rvars, mvars>>

\* the end of a cycle: the --commit-only process exits, the loop sleeps
EndOfCycleLoops == "sleep"
EndOfCycle == IF commit_only THEN "exited" ELSE "sleep"
ExitCodeAt(next) == IF next = "exited" THEN 0 ELSE exit_code

\* one subprocess.run of run_command, as the cycle's log keeps it
Ran(command, proc) ==
  [cmd |-> command, returncode |-> proc.returncode, stdout |-> proc.stdout]

\* `if status:`
AfterStatusPushBacklog(result) ==
  IF Truthy(result) THEN "stage" ELSE IF ahead THEN "push" ELSE EndOfCycle
AfterStatusNotNone(result) == IF ~result.none THEN "stage" ELSE EndOfCycle
AfterStatus(result) == IF Truthy(result) THEN "stage" ELSE EndOfCycle

\* status = get_git_status(); if status:
GetGitStatus ==
  /\ acpc = "status"
  /\ \E proc \in GitStatusRuns(dirty) :
       LET result == run_command(proc)
       IN /\ status' = result
          /\ acpc' = AfterStatus(result)
          /\ exit_code' = ExitCodeAt(AfterStatus(result))
          /\ cmds' = Append(cmds, Ran("status", proc))
  /\ UNCHANGED <<tvars, wvars, commit_only, cycles, dirty0, rvars, mvars>>

\* `if stage_result is None: return False`
AfterStageRetry(stage_result) == IF stage_result.none THEN "stage" ELSE "commit"
AfterStageIfOutput(stage_result) == IF Truthy(stage_result) THEN "commit" ELSE EndOfCycle
AfterStage(stage_result) == IF stage_result.none THEN EndOfCycle ELSE "commit"

\* commit_changes: stage_result = run_command("git add --all")
StageAll ==
  /\ acpc = "stage"
  /\ \E proc \in GitAddRuns :
       LET stage_result == run_command(proc)
       IN /\ acpc' = AfterStage(stage_result)
          /\ exit_code' = ExitCodeAt(AfterStage(stage_result))
          /\ cmds' = Append(cmds, Ran("stage", proc))
  /\ UNCHANGED <<tvars, wvars, commit_only, status, cycles, dirty0, rvars, mvars>>

\* `if commit_result is None: return False`, then `if commit_changes(): push_changes()`
AfterCommitAlwaysPush(commit_result) == "push"
AfterCommitFatal(commit_result) == IF commit_result.none THEN "exited" ELSE "push"
AfterCommit(commit_result) == IF commit_result.none THEN EndOfCycle ELSE "push"

\* commit_changes: commit_result = run_command('git commit -m ...')
Commit ==
  /\ acpc = "commit"
  /\ \E proc \in GitCommitRuns :
       LET commit_result == run_command(proc)
       IN /\ acpc' = AfterCommit(commit_result)
          /\ exit_code' = ExitCodeAt(AfterCommit(commit_result))
          /\ dirty' = IF proc.returncode = 0 THEN FALSE ELSE dirty
          /\ ahead' = IF proc.returncode = 0 THEN TRUE ELSE ahead
          /\ cmds' = Append(cmds, Ran("commit", proc))
  /\ UNCHANGED <<tvars, wvars, commit_only, status, cycles, dirty0, mvars>>

\* `if push_result is None: ... return False`: the caller drops the result
AfterPushRetry(push_result) == IF push_result.none THEN "push" ELSE EndOfCycle
AfterPush(push_result) == EndOfCycle

\* push_changes
Push ==
  /\ acpc = "push"
  /\ \E proc \in GitPushRuns :
       LET push_result == run_command(proc)
       IN /\ ahead' = IF proc.returncode = 0 THEN FALSE ELSE ahead
          /\ cmds' = Append(cmds, Ran("push", proc))
          /\ acpc' = AfterPush(push_result)
          /\ exit_code' = ExitCodeAt(AfterPush(push_result))
  /\ UNCHANGED <<tvars, wvars, commit_only, status, cycles, dirty0, dirty, mvars>>

\* auto_commit_changes: time.sleep(interval), then the next pass of the loop
IntervalSleep ==
  /\ acpc = "sleep"
  /\ cycles < MaxCycles
  /\ cycles' = cycles + 1
  /\ acpc' = "status"
  /\ cmds' = <<>>
  /\ UNCHANGED <<tvars, wvars, commit_only, status, exit_code, dirty0, rvars, mvars>>

\* somebody edits a document while the interval loop runs
WorkingTreeEdit ==
  /\ ~commit_only
  /\ acpc \in {"status", "sleep"}
  /\ ~dirty
  /\ dirty' = TRUE
  /\ UNCHANGED <<tvars, wvars, avars, ahead, mvars>>

ScriptStep == Main \/ GetGitStatus \/ StageAll \/ Commit \/ Push

Next ==
  \/ FsEvent
  \/ \E t \in Threads : on_any_event(t)
  \/ \E t \in Threads : ArmTimer(t)
  \/ \E t \in Threads : PollTimer(t)
  \/ \E t \in Threads : WakeUp(t)
  \/ \E t \in Threads : TimerDone(t)
  \/ Tick
  \/ Main
  \/ GetGitStatus
  \/ StageAll
  \/ Commit
  \/ Push
  \/ ScriptFailsToStart

\* the watcher: watch_changes.py with the auto_commit.py --commit-only it runs
Spec == Init /\ [][Next]_vars

\* watch_directory before observer.start(): no dispatcher thread runs yet
InitStart ==
  /\ InitScript
  /\ ToolsOff
  /\ now = 0
  /\ queue = <<>>
  /\ nev = 0
  /\ pc = [t \in Threads |-> "unstarted"]
  /\ wake = [t \in Threads |-> 0]
  /\ last_modified = 0
  /\ timer_running = FALSE
  /\ evlog = <<>>
  /\ fires = <<>>
  /\ main = "start"
  /\ stopped = FALSE
  /\ intr_fires = -1
  /\ trigger_log = "nothing"
  /\ evmax = MaxFairEvents

\* observer.schedule(...) and observer.start() succeed: the dispatcher thread
\* runs and the main thread enters `while True: time.sleep(1)`
ObserverStart ==
  /\ main = "start"
  /\ main' = "loop"
  /\ pc' = [t \in Threads |-> "idle"]
  /\ UNCHANGED <<tvars, now, queue, nev, wake, last_modified, timer_running, evlog, fires,
                 avars, rvars, stopped, intr_fires, evmax, trigger_log>>

\* schedule/start stand before the `try:` -- what they raise leaves
\* watch_directory and ends the process
AfterStartRaisesCaught == "loop"
AfterStartRaises == "failed"

\* the root cannot be watched: observer.schedule/observer.start raise
ObserverStartFails ==
  /\ main = "start"
  /\ main' = AfterStartRaises
  /\ UNCHANGED <<tvars, wvars, avars, rvars, stopped, intr_fires, evmax, trigger_log>>

NextStart == Next \/ ObserverStart \/ ObserverStartFails

\* the watcher from its start
SpecStart == InitStart /\ [][NextStart]_vars

\* the watcher with a git client that may hang
NextHang == Next \/ CommandHangs
SpecHang == InitFair /\ [][NextHang]_vars

\* the steps of the dispatcher threads
HandlerStep ==
  \E t \in Threads :
    on_any_event(t) \/ ArmTimer(t) \/ PollTimer(t) \/ WakeUp(t) \/ TimerDone(t)

\* the watcher while it is not interrupted: threads run, the clock advances
\* and the git commands of the child return
FairSpec ==
  /\ InitFair
  /\ [][Next]_vars
  /\ WF_vars(HandlerStep)
  /\ WF_vars(ScriptStep)
  /\ WF_vars(Tick)

\* the watcher with an interrupt signal
NextInt ==
  \/ Next
  \/ KeyboardInterrupt
  \/ ObserverStop
  \/ \E t \in Threads : DispatcherExit(t)
  \/ ObserverJoin

MainStep == ObserverStop \/ ObserverJoin \/ \E t \in Threads : DispatcherExit(t)

FairSpecInt ==
  /\ InitInt
  /\ [][NextInt]_vars
  /\ WF_vars(HandlerStep)
  /\ WF_vars(ScriptStep)
  /\ WF_vars(Tick)
  /\ WF_vars(MainStep)

\* auto_commit.py started on its own, with or without --commit-only
InitAC ==
  /\ InitHandler
  /\ ToolsOff
  /\ acpc = "main"
  /\ commit_only \in BOOLEAN
  /\ status = None
  /\ cmds = <<>>
  /\ cycles = 0
  /\ exit_code = -1
  /\ dirty \in BOOLEAN
  /\ dirty0 = dirty
  /\ ahead \in BOOLEAN
  /\ evmax = 0

NextAC ==
  \/ Main
  \/ GetGitStatus
  \/ StageAll
  \/ Commit
  \/ Push
  \/ IntervalSleep
  \/ WorkingTreeEdit

SpecAC == InitAC /\ [][NextAC]_vars

\* the process runs: no step of the script is postponed forever
FairSpecAC == InitAC /\ [][NextAC]_vars /\ WF_vars(ScriptStep)

\* the interval loop: the commands return and time.sleep(interval) returns
FairSpecLoop ==
  /\ InitAC
  /\ [][NextAC]_vars
  /\ WF_vars(ScriptStep)
  /\ WF_vars(IntervalSleep)

\* ------------------------------------------------- hooks/post_gen_project.py
\* what the rendered template holds before the hook runs
TemplateFiles ==
  { "scripts/analytics_integration.py", "scripts/auth_integration.py",
    "scripts/comments_integration.py", "scripts/auto_commit.py",
    "scripts/watch_changes.py", "LICENSE" }
LogFiles == { "auto_commit.log", "file_watcher.log" }

OptionValues == { "yes", "no" }
Licenses == { "MIT", "Not open source" }

\* the statements of the hook, in program order
HookOrder ==
  << "use_analytics", "use_authentication", "use_comments", "auto_commit_enabled",
     "file_watcher_enabled", "open_source_license", "git", "done" >>
HookAfter(stmt) == HookOrder[(CHOOSE i \in DOMAIN HookOrder : HookOrder[i] = stmt) + 1]

\* the files each `if not <option>:` block removes
HookRemoves ==
  [ use_analytics |-> { "scripts/analytics_integration.py" },
    use_authentication |-> { "scripts/auth_integration.py" },
    use_comments |-> { "scripts/comments_integration.py" },
    auto_commit_enabled |-> { "scripts/auto_commit.py", "auto_commit.log" },
    file_watcher_enabled |-> { "scripts/watch_changes.py", "file_watcher.log" } ]

\* the hook starts in the rendered project directory
InitHook ==
  /\ InitHandler
  /\ InitScript
  /\ CreatorOff
  /\ CategoriesOff
  /\ evmax = 0
  /\ hpc = HookOrder[1]
  /\ options \in [ { "use_analytics", "use_authentication", "use_comments",
                     "auto_commit_enabled", "file_watcher_enabled" } -> OptionValues ]
                  \X Licenses
  /\ project \in { TemplateFiles \cup logs : logs \in SUBSET LogFiles }

\* x = '{{ cookiecutter.x }}' == 'yes'; if not x: os.remove(each file that exists)
HookOption ==
  /\ hpc \in DOMAIN HookRemoves
  /\ project' = IF options[1][hpc] = "yes" THEN project ELSE project \ HookRemoves[hpc]
  /\ hpc' = HookAfter(hpc)
  /\ UNCHANGED <<wvars, avars, rvars, mvars, options, doc_files, returns, gpc, md_files,
                 categories, pages, index_counts>>

\* if license_choice == "Not open source": os.remove('LICENSE')
HookLicense ==
  /\ hpc = "open_source_license"
  /\ project' = IF options[2] = "Not open source" THEN project \ { "LICENSE" } ELSE project
  /\ hpc' = HookAfter(hpc)
  /\ UNCHANGED <<wvars, avars, rvars, mvars, options, doc_files, returns, gpc, md_files,
                 categories, pages, index_counts>>

\* git init / add / commit: a failure is caught and only printed
HookGit ==
  /\ hpc = "git"
  /\ \E ok \in BOOLEAN : project' = IF ok THEN project \cup { ".git" } ELSE project
  /\ hpc' = HookAfter(hpc)
  /\ UNCHANGED <<wvars, avars, rvars, mvars, options, doc_files, returns, gpc, md_files,
                 categories, pages, index_counts>>

NextHook == HookOption \/ HookLicense \/ HookGit

SpecHook == InitHook /\ [][NextHook]_vars

\* ------------------------------------------------------ create_document.py
\* calls of create_document in one run of the model
MaxCalls == 3

\* str.lower
RECURSIVE lower(_)
lower(text) ==
  IF text = <<>> THEN <<>>
  ELSE <<IF Head(text) = "A" THEN "a" ELSE Head(text)>> \o lower(Tail(text))

\* \w of the regular expressions, and the class [\s_-]
WordChars == { "A", "a", "b", "_" }
Separators == Whitespace \cup { "_", "-" }

\* re.sub(r'[^\w\s-]', '', text)
KeepWordSpaceHyphen(text) ==
  SelectSeq(text, LAMBDA c : c \in WordChars \cup Whitespace \cup { "-" })

RECURSIVE SkipSeparators(_)
SkipSeparators(text) ==
  IF text # <<>> /\ Head(text) \in Separators THEN SkipSeparators(Tail(text)) ELSE text

\* re.sub(r'[\s_-]+', '-', text)
RECURSIVE HyphenateRuns(_)
HyphenateRuns(text) ==
  IF text = <<>> THEN <<>>
  ELSE IF Head(text) \in Separators
       THEN <<"-">> \o HyphenateRuns(SkipSeparators(text))
       ELSE <<Head(text)>> \o HyphenateRuns(Tail(text))

\* re.sub(r'^-+|-+$', '', text)
RECURSIVE TrimHyphens(_)
TrimHyphens(text) ==
  IF text # <<>> /\ Head(text) = "-" THEN TrimHyphens(Tail(text))
  ELSE IF text # <<>> /\ text[Len(text)] = "-"
       THEN TrimHyphens(SubSeq(text, 1, Len(text) - 1))
       ELSE text

\* DocumentCreator.slugify
slugify(text) == TrimHyphens(HyphenateRuns(KeepWordSpaceHyphen(strip(lower(text)))))

\* the titles, descriptions and categories the calls are given
Titles ==
  { <<"A", " ", "b">>, <<"a", "_", "b", "!">>, <<" ", "a", "-", "-", "b">>, <<"a", "!", "b">> }
Descriptions == { "", "d" }
CategoryArgs ==
  { [none |-> TRUE, name |-> ""], [none |-> FALSE, name |-> ""], [none |-> FALSE, name |-> "g"] }

\* `if category:` then docs_dir / category / f"{slug}.md", else docs_dir / f"{slug}.md"
DocPath(title, category) ==
  [ dir |-> IF ~category.none /\ category.name # "" THEN category.name ELSE "",
    name |-> slugify(title) \o <<".", "m", "d">> ]

\* doc_path.exists()
ExistsNever(doc_path) == FALSE
Exists(doc_path) == \E f \in doc_files : f.path = doc_path

\* doc_path.write_text(content): the file at that path now holds content
WriteText(doc_path, content) ==
  { f \in doc_files : f.path # doc_path } \cup { [path |-> doc_path, content |-> content] }

\* a docs directory, empty or with a document somebody wrote by hand
HandWritten ==
  [ path |-> [dir |-> "", name |-> <<"a", "-", "b", ".", "m", "d">>],
    content |-> [title |-> <<"a", "b">>, description |-> "by hand"] ]

InitCreator ==
  /\ InitHandler
  /\ InitScript
  /\ HookOff
  /\ CategoriesOff
  /\ evmax = 0
  /\ doc_files \in { {}, { HandWritten } }
  /\ returns = <<>>

\* DocumentCreator.create_document
create_document ==
  /\ Len(returns) < MaxCalls
  /\ \E title \in Titles, description \in Descriptions, category \in CategoryArgs :
       LET doc_path == DocPath(title, category)
           content == [title |-> title, description |-> description]
       IN IF Exists(doc_path)
          THEN /\ returns' = Append(returns, [title |-> title, category |-> category,
                                               description |-> description,
                                               none |-> TRUE, path |-> doc_path])
               /\ UNCHANGED doc_files
          ELSE /\ doc_files' = WriteText(doc_path, content)
               /\ returns' = Append(returns, [title |-> title, category |-> category,
                                               description |-> description,
                                               none |-> FALSE, path |-> doc_path])
  /\ UNCHANGED <<wvars, avars, rvars, mvars, hpc, options, project, gpc, md_files,
                 categories, pages, index_counts>>

NextCreator == create_document

SpecCreator == InitCreator /\ [][NextCreator]_vars

\* -------------------------------------------------- generate_categories.py
\* markdown files under the docs directory in one run of the model
MaxDocs == 2

\* the files docs_path.glob('**/*.md') can yield; str(rel_path) sorts as listed
MdPathOrder == << "a.md", "categories/x.md", "g/b.md" >>
MdPaths ==
  { [rel_path |-> "a.md", parent |-> "docs", name |-> "a.md", title |-> "A"],
    [rel_path |-> "categories/x.md", parent |-> "categories", name |-> "x.md", title |-> "X"],
    [rel_path |-> "g/b.md", parent |-> "g", name |-> "b.md", title |-> "B"] }

\* frontmatter: no `category` key, a name, or a list of names
Frontmatters ==
  { [has |-> FALSE, names |-> <<>>],
    [has |-> TRUE, names |-> <<"X">>],
    [has |-> TRUE, names |-> <<"X", "Y">>] }

\* re.search(r'{{category:\s*(.*?)\s*}}', content): the first match, if any
InlineCategories ==
  { [found |-> FALSE, name |-> ""], [found |-> TRUE, name |-> "X"],
    [found |-> TRUE, name |-> "Y"] }

MdFiles ==
  { [path |-> p, frontmatter |-> fm, inline |-> il] :
      p \in MdPaths, fm \in Frontmatters, il \in InlineCategories }

\* `if file_path.name == 'tags.md' or file_path.parent.name == 'categories': continue`
SkippedByScan(file) == file.path.name = "tags.md" \/ file.path.parent = "categories"

\* categories[cat].append(item) on a defaultdict(list)
AppendTo(cats, cat, item) ==
  IF cat \in DOMAIN cats
  THEN [cats EXCEPT ![cat] = Append(@, item)]
  ELSE [c \in DOMAIN cats \cup {cat} |-> IF c = cat THEN <<item>> ELSE cats[c]]

\* the category names one file is appended under, in the order of the code:
\* those of the frontmatter, then the inline one
InlineAlso(file) == IF file.inline.found THEN <<file.inline.name>> ELSE <<>>
CategoryNamesOf(file) ==
  (IF file.frontmatter.has THEN file.frontmatter.names ELSE <<>>) \o InlineAlso(file)

RECURSIVE AppendUnder(_, _, _)
AppendUnder(cats, names, item) ==
  IF names = <<>> THEN cats
  ELSE AppendUnder(AppendTo(cats, Head(names), item), Tail(names), item)

\* scan_docs_directory: the for loop over the files
RECURSIVE ScanFiles(_, _)
ScanFiles(files, cats) ==
  IF files = <<>> THEN cats
  ELSE LET file == Head(files)
       IN ScanFiles(Tail(files),
                    IF SkippedByScan(file) THEN cats
                    ELSE AppendUnder(cats, CategoryNamesOf(file),
                                     <<file.path.rel_path, file.path.title>>))

\* sorted(documents): tuples compare by their path first
PathRank(rel_path) == CHOOSE i \in DOMAIN MdPathOrder : MdPathOrder[i] = rel_path
SortedDocuments(documents) ==
  SortSeq(documents, LAMBDA d1, d2 : PathRank(d1[1]) < PathRank(d2[1]))

\* category_name.lower().replace(' ', '-')
CategorySlug(category_name) ==
  IF category_name = "X" THEN "x" ELSE IF category_name = "Y" THEN "y" ELSE category_name

\* main() of generate_categories.py starts on a docs directory
InitCategories ==
  /\ InitHandler
  /\ InitScript
  /\ HookOff
  /\ CreatorOff
  /\ evmax = 0
  /\ gpc = "scan"
  /\ md_files \in { fs \in UNION { [1..n -> MdFiles] : n \in 0..MaxDocs } :
                      \A i, j \in DOMAIN fs : i # j => fs[i].path # fs[j].path }
  /\ categories = <<>>
  /\ pages = <<>>
  /\ index_counts = <<>>

\* categories = scan_docs_directory(args.docs_dir); if categories: ... else: warning
scan_docs_directory ==
  /\ gpc = "scan"
  /\ categories' = ScanFiles(md_files, <<>>)
  /\ gpc' = IF DOMAIN categories' # {} THEN "generate" ELSE "done"
  /\ UNCHANGED <<wvars, avars, rvars, mvars, hpc, options, project, doc_files, returns,
                 md_files, pages, index_counts>>

\* generate_category_pages: one page per category, and the index with the counts
generate_category_pages ==
  /\ gpc = "generate"
  /\ pages' = [ slug \in { CategorySlug(c) : c \in DOMAIN categories } |->
                 SortedDocuments(categories[CHOOSE c \in DOMAIN categories :
                                              CategorySlug(c) = slug]) ]
  /\ index_counts' = [ c \in DOMAIN categories |-> Len(categories[c]) ]
  /\ gpc' = "done"
  /\ UNCHANGED <<wvars, avars, rvars, mvars, hpc, options, project, doc_files, returns,
                 md_files, categories>>

NextCategories == scan_docs_directory \/ generate_category_pages

SpecCategories == InitCategories /\ [][NextCategories]_vars

\* ------------------------------------------------------------ properties
Last(log) == log[Len(log)]

\* a thread that is executing _start_timer
InWait(t) == pc[t] \in {"poll", "sleep", "run"}
ActiveWaits == Cardinality({t \in Threads : InWait(t)})

\* the step in which thread t takes an event off the queue and handles it
HandledBy(t) ==
  /\ pc[t] = "idle"
  /\ queue # <<>>
  /\ queue' = Tail(queue)
  /\ \A u \in Threads \ {t} : pc'[u] = pc[u]

\* C1: a commit firing happens only when no qualifying event has occurred
\* during the debounce interval that precedes it.
C1_FiresOnlyAfterQuiet ==
  \A i \in DOMAIN fires : \A j \in DOMAIN evlog :
    ~(fires[i].at - debounce_time < evlog[j] /\ evlog[j] < fires[i].at)

\* consecutive events less than debounce_time apart
IsBurst(log) == \A j \in 1..(Len(log) - 1) : log[j + 1] - log[j] < debounce_time

\* C2: a burst of qualifying events followed by a quiet gap of debounce_time
\* gives exactly one firing, debounce_time (plus at most one tick) after the
\* last event of the burst.
C2_OneFiringPerBurst ==
  (evlog # <<>> /\ IsBurst(evlog)) =>
    /\ Len(fires) <= 1
    /\ \A i \in DOMAIN fires : fires[i].at >= Last(evlog) + debounce_time
    /\ now > Last(evlog) + debounce_time + 1 => Len(fires) = 1

\* C3: a qualifying event that arrives during a debounce wait has advanced
\* last_modified to its time before that wait ends (decides to fire).
C3_AdvancedBeforeWaitEnds ==
  [][\A t \in Threads :
       (pc[t] = "poll" /\ pc'[t] = "run") =>
         \A i \in DOMAIN queue :
           Qualifying(queue[i]) => queue[i].at <= last_modified]_vars

\* C4: at most one execution of _start_timer is active, and handling a
\* qualifying event while timer_running is true starts none.
C4_AtMostOneWait ==
  /\ ActiveWaits <= 1
  /\ \A t \in Threads : InWait(t) => timer_running

C4_Witness ==
  /\ ActiveWaits = 1
  /\ Len(fires) >= 1
  /\ \E i \in DOMAIN queue : Qualifying(queue[i])

C6_FiresAtDebounce ==
  /\ \A i \in DOMAIN fires :
       /\ fires[i].last + debounce_time <= fires[i].at
       /\ fires[i].at <= fires[i].last + debounce_time + 1
  /\ \A t \in Threads : pc[t] \in {"poll", "sleep"} => now <= last_modified + debounce_time
  /\ (Len(evlog) = 1 /\ Len(fires) >= 1) => fires[1].last = evlog[1]
  /\ timer_running <=> (\E t \in Threads : InWait(t))

C6_Witness ==
  /\ Len(evlog) = 1
  /\ Len(fires) = 1
  /\ fires[1].at = evlog[1] + debounce_time
  /\ evlog[1] > 0
  /\ ~timer_running
  /\ \A t \in Threads : pc[t] = "idle"

\* C7: an event for a directory, or for a path whose base name starts with
\* a dot, leaves last_modified and timer_running unchanged and starts no wait
\* and no firing; any other event sets last_modified when it is handled.
C7_FilterFrame ==
  [][\A t \in Threads :
       HandledBy(t) =>
         IF Head(queue).is_directory \/ HiddenName(Head(queue).src_path)
         THEN /\ UNCHANGED <<last_modified, timer_running, fires>>
              /\ pc'[t] = "idle"
         ELSE last_modified' = now]_vars

C7_Witness ==
  /\ nev >= 2
  /\ queue = <<>>
  /\ Len(evlog) = 1
  /\ evlog[1] > 0
  /\ last_modified = evlog[1]
  /\ timer_running
  /\ fires = <<>>

\* the commands of one Commit-and-Push cycle, in their order
CycleOrder == <<"status", "stage", "commit", "push">>
Count(command) == Cardinality({i \in DOMAIN cmds : cmds[i].cmd = command})
Succeeded(command) ==
  \E i \in DOMAIN cmds : cmds[i].cmd = command /\ cmds[i].returncode = 0
Failed(command) ==
  \E i \in DOMAIN cmds : cmds[i].cmd = command /\ cmds[i].returncode # 0

\* C8: the commands of a cycle run in the order status, stage, commit, push;
\* push runs only after stage and commit succeeded in that cycle, and a
\* failed stage or commit means no push.
C8_StrictOrder ==
  /\ Len(cmds) <= Len(CycleOrder)
  /\ \A i \in DOMAIN cmds : cmds[i].cmd = CycleOrder[i]
  /\ (Count("push") > 0 \/ acpc = "push") => (Succeeded("stage") /\ Succeeded("commit"))
  /\ (Failed("stage") \/ Failed("commit")) => (Count("push") = 0 /\ acpc # "push")

C8_Witness ==
  /\ Len(cmds) = 4
  /\ cmds[4].cmd = "push"
  /\ cmds[3].returncode = 0

\* C9: when the status command succeeds with empty output, the cycle runs
\* none of stage, commit and push.
C9_CleanSkipsCycle ==
  (cmds # <<>> /\ cmds[1].returncode = 0 /\ cmds[1].stdout = <<>>) =>
    /\ Len(cmds) = 1
    /\ acpc \notin {"stage", "commit", "push"}

C9_Witness ==
  /\ Len(cmds) = 1
  /\ cmds[1].returncode = 0
  /\ cmds[1].stdout = <<>>
  /\ ~commit_only
  /\ cycles = 1
  /\ acpc = "sleep"

\* C10 as stated: a --commit-only run never enters the loop; on a dirty tree
\* it runs exactly one status, one stage, one commit and, when the commit
\* succeeds, one push; on a clean tree the status only; then exits with 0.
C10_ExactlyOneCycle ==
  commit_only =>
    /\ acpc # "sleep"
    /\ cycles = 0
    /\ acpc = "exited" =>
         /\ exit_code = 0
         /\ Count("status") = 1
         /\ IF dirty0
            THEN /\ Count("stage") = 1
                 /\ Count("commit") = 1
                 /\ Succeeded("commit") => Count("push") = 1
            ELSE Len(cmds) = 1

\* C10 amended, safety part: each later command runs once exactly when the
\* one before it succeeded (stage: when status succeeded with output).
C10_CycleOnce ==
  commit_only =>
    /\ acpc # "sleep"
    /\ cycles = 0
    /\ acpc = "exited" =>
         /\ exit_code = 0
         /\ Count("status") = 1
         /\ Count("stage") = (IF dirty0 /\ Succeeded("status") THEN 1 ELSE 0)
         /\ Count("commit") = (IF Succeeded("stage") THEN 1 ELSE 0)
         /\ Count("push") = (IF Succeeded("commit") THEN 1 ELSE 0)
         /\ ~dirty0 => Len(cmds) = 1

\* C10 amended: a --commit-only run never enters the loop, runs one status,
\* then one stage, one commit and one push as long as the command before
\* succeeded, and exits with status 0.
C10_CommitOnlyTerminates ==
  /\ []C10_CycleOnce
  /\ (commit_only ~> acpc = "exited")

C10_Witness ==
  /\ commit_only
  /\ acpc = "exited"
  /\ exit_code = 0
  /\ dirty0
  /\ Len(cmds) = 4

\* a qualifying event waits in the observer's queue
QueuedChange == \E i \in DOMAIN queue : Qualifying(queue[i])

\* C11: whatever the outcome of the commit action, the return from a firing
\* leaves the dispatcher idle with timer_running false; every firing comes to
\* that point, and a qualifying event queued after a firing gets a new firing.
C11_IdleAfterEveryFiring ==
  /\ [][\A t \in Threads :
          (pc[t] = "run" /\ pc'[t] # "run") => (pc'[t] = "idle" /\ ~timer_running')]_vars
  /\ \A t \in Threads : (pc[t] = "run") ~> (pc[t] = "idle" /\ ~timer_running)
  /\ \A k \in 1..MaxFairEvents :
       (Len(fires) = k /\ QueuedChange /\ now + debounce_time <= MaxTime)
         ~> (Len(fires) > k)

C11_Witness ==
  /\ Len(fires) = 1
  /\ exit_code = 2
  /\ timer_running
  /\ \E t \in Threads : pc[t] = "sleep"

Commands == {"status", "stage", "commit", "push"}

\* C12: a firing starts the commit script exactly once (and nothing else
\* starts it), and within a firing no git command runs more than once, also
\* after a failure.
C12_OncePerFiring ==
  /\ [](\A c \in Commands : Count(c) <= 1)
  /\ [](\A t \in Threads :
          (pc[t] = "run" /\ acpc = "exited" /\ exit_code = 0) => Count("status") = 1)
  /\ [][(Len(fires') = Len(fires) + 1) <=> (acpc' = "main" /\ acpc # "main")]_vars

C12_Witness ==
  /\ Len(fires) = 1
  /\ \E t \in Threads : pc[t] = "run"
  /\ acpc = "exited"
  /\ Len(cmds) = 2
  /\ cmds[2].cmd = "stage"
  /\ cmds[2].returncode # 0

\* C13: after a successful commit and a failed push the commit is still
\* there (the branch is ahead), the cycle is over with the push as its last
\* command, the process did not fail, and only a push ever clears `ahead`.
C13_PushFailureKeepsCommit ==
  /\ []((Len(cmds) >= 4 /\ cmds[3].returncode = 0 /\ cmds[4].returncode # 0) =>
          /\ ahead
          /\ Len(cmds) = 4
          /\ acpc \in {"exited", "sleep"}
          /\ acpc = "exited" => exit_code = 0)
  /\ [][(ahead /\ ~ahead') => (acpc = "push" /\ Len(cmds') = 4 /\ cmds'[4].returncode = 0)]_vars

C13_Witness ==
  /\ Len(cmds) = 4
  /\ cmds[3].returncode = 0
  /\ cmds[4].returncode # 0
  /\ ahead
  /\ acpc = "exited"

\* C14 as stated: a stage that gives no output, and a stage or commit that
\* exits non-zero, are failures of commit_changes: nothing follows them.
C14_NoOutputIsFailure ==
  /\ \A i \in DOMAIN cmds :
       (cmds[i].cmd = "stage" /\ (cmds[i].returncode # 0 \/ strip(cmds[i].stdout) = <<>>)) =>
         (Count("commit") = 0 /\ Count("push") = 0 /\ acpc \notin {"commit", "push"})
  /\ Failed("commit") => (Count("push") = 0 /\ acpc # "push")

\* C14 amended: commit_changes fails, without raising, exactly when stage or
\* commit exits non-zero, and then nothing follows; a stage that succeeds,
\* with or without output, is followed by the commit.
C14_FailureOnNonZero ==
  /\ Failed("stage") => (Count("commit") = 0 /\ Count("push") = 0 /\ acpc \notin {"commit", "push"})
  /\ Failed("commit") => (Count("push") = 0 /\ acpc # "push")
  /\ Succeeded("stage") => (Count("commit") = 1 \/ acpc = "commit")
  /\ (Failed("stage") \/ Failed("commit")) =>
       (acpc \in {"exited", "sleep"} /\ (acpc = "exited" => exit_code = 0))

C14_Witness ==
  /\ Len(cmds) >= 3
  /\ cmds[2].cmd = "stage"
  /\ cmds[2].returncode = 0
  /\ cmds[2].stdout = <<>>
  /\ cmds[3].cmd = "commit"
  /\ cmds[3].returncode # 0
  /\ acpc = "exited"

\* C15: a git command that exits non-zero is the last command of its cycle
\* (a failed status is the only one), the script still exits with 0, no
\* dispatcher thread dies of an exception, and once the script is over the
\* dispatcher is out of _trigger_commit and idle means timer_running false.
C15_FailureAbandonsCycle ==
  /\ \A i \in DOMAIN cmds :
       cmds[i].returncode # 0 => (i = Len(cmds) /\ acpc \in {"exited", "off"})
  /\ Failed("status") => Len(cmds) = 1
  /\ \A t \in Threads : pc[t] # "crashed"
  /\ (acpc = "exited" /\ cmds # <<>>) => exit_code = 0
  /\ acpc = "off" => \A t \in Threads : pc[t] # "run"
  /\ (\A t \in Threads : pc[t] = "idle") => ~timer_running

C15_Witness ==
  /\ Failed("status")
  /\ Len(fires) = 1
  /\ acpc = "off"
  /\ ~timer_running
  /\ \A t \in Threads : pc[t] = "idle"

\* the wait that is pending can still end before the model's clock stops
\* (a wait that starts before observer.stop() needs now + debounce_time)
PendingWaitFits == PendingWait => last_modified + debounce_time <= MaxTime

\* C16: after an interrupt the main thread calls observer.stop() before it
\* joins and returns; when it has returned every dispatcher thread has ended;
\* and from the interrupt on, in Idle as in Waiting, it does return.
C16_InterruptStopsAndTerminates ==
  /\ [](main \in {"join", "exited"} => stopped)
  /\ [](main = "exited" => \A t \in Threads : pc[t] = "stopped")
  /\ (main # "loop" /\ PendingWaitFits /\ (stopped \/ now + debounce_time <= MaxTime))
       ~> (main = "exited" /\ ~timer_running /\ \A t \in Threads : pc[t] = "stopped")

C16_Witness ==
  /\ main = "exited"
  /\ stopped
  /\ intr_fires = 0
  /\ Len(fires) = 1
  /\ \A t \in Threads : pc[t] = "stopped"

\* C17: the handler and the debounce loop never run at the same time: at most
\* one thread is inside ChangeHandler, last_modified is written and
\* timer_running is set only while no wait runs, timer_running is true
\* throughout a wait and is reset only by the thread that ends its wait.
C17_SerializedTrackerAccess ==
  /\ [](Cardinality({t \in Threads : pc[t] \notin {"idle", "stopped"}}) <= 1)
  /\ [](\A t \in Threads : InWait(t) => timer_running)
  /\ [][(last_modified' # last_modified \/ (~timer_running /\ timer_running'))
          => \A t \in Threads : ~InWait(t)]_vars
  /\ [][(timer_running /\ ~timer_running')
          => \E t \in Threads : pc[t] = "run" /\ pc'[t] = "idle"]_vars

C17_Witness ==
  /\ fires = <<>>
  /\ \E t \in Threads : pc[t] = "sleep"
  /\ \E i \in DOMAIN queue : Qualifying(queue[i]) /\ queue[i].at > last_modified

\* a resettable countdown timer: the event at log[j] leads to a firing
\* debounce_time later unless the next event comes first
TimerFireTimes(log) ==
  { log[j] + debounce_time : j \in { n \in DOMAIN log :
        n = Len(log) \/ log[n + 1] - log[n] >= debounce_time } }

\* C18: the polling loop fires exactly when a resettable countdown timer fed
\* with the same qualifying events fires.
C18_SameFiringsAsTimer ==
  /\ \A i \in DOMAIN fires : fires[i].at \in TimerFireTimes(evlog)
  /\ ((\A t \in Threads : pc[t] = "idle") /\ queue = <<>> /\ evlog # <<>>
        /\ now > Last(evlog) + debounce_time)
       => { fires[i].at : i \in DOMAIN fires } = TimerFireTimes(evlog)

\* the next firing can still happen before the model's clock stops
NextFiringFits ==
  IF PendingWait THEN last_modified + debounce_time <= MaxTime
  ELSE now + debounce_time <= MaxTime

\* C19: a qualifying event that no firing has followed yet is still queued or
\* has a wait pending, and while that is so another firing comes (no
\* interrupt, git commands return).
C19_EveryChangeGetsAFiring ==
  /\ [](\A j \in DOMAIN evlog :
          \/ \E i \in DOMAIN fires : fires[i].seen >= j
          \/ QueuedChange
          \/ PendingWait)
  /\ \A k \in 0..MaxFairEvents :
       (Len(fires) = k /\ (QueuedChange \/ PendingWait) /\ NextFiringFits)
         ~> (Len(fires) > k)

C19_Witness ==
  /\ Len(evlog) = 2
  /\ Len(fires) = 2
  /\ fires[1].seen = 2
  /\ fires[2].at > fires[1].at
  /\ \A t \in Threads : pc[t] = "idle"

\* C20: an interrupt that meets a pending wait does not cancel it: the wait
\* goes on to its firing, and the main thread returns only after that firing
\* and its commit script are over.
C20_WaitSurvivesInterrupt ==
  /\ []((main = "exited" /\ intr_fires >= 0) => (Len(fires) > intr_fires /\ acpc = "off"))
  /\ [](main = "exited" => \A t \in Threads : ~InWait(t))
  /\ [][\A t \in Threads :
          (stopped /\ pc[t] \in {"poll", "sleep"}) => pc'[t] \in {"poll", "sleep", "run"}]_vars
  /\ (intr_fires >= 0 /\ last_modified + debounce_time <= MaxTime)
       ~> (Len(fires) > intr_fires)

C20_Witness ==
  /\ main = "exited"
  /\ intr_fires = 0
  /\ Len(fires) = 1
  /\ fires[1].last > 0
  /\ fires[1].at = fires[1].last + debounce_time
  /\ cmds # <<>>

\* C21: a --commit-only run that ran its commands exits with status 0 also
\* when its status, stage, commit or push failed; _trigger_commit logs a
\* failure exactly when the script's exit status is not 0, so a firing whose
\* commit or push failed is logged as completed successfully.
C21_FailureOnlyByExitStatus ==
  /\ []((acpc = "exited" /\ cmds # <<>>) => exit_code = 0)
  /\ [][\A t \in Threads :
          (pc[t] = "run" /\ pc'[t] # "run") =>
            /\ trigger_log' = "failed" <=> exit_code # 0
            /\ trigger_log' = "completed successfully" <=> exit_code = 0
            /\ (cmds # <<>> /\ \E i \in DOMAIN cmds : cmds[i].returncode # 0) =>
                 trigger_log' = "completed successfully"]_vars

C21_Witness ==
  /\ trigger_log = "completed successfully"
  /\ \A t \in Threads : pc[t] = "idle"
  /\ Len(cmds) = 4
  /\ cmds[4].cmd = "push"
  /\ cmds[4].returncode # 0

\* the status command of the current cycle succeeded and found no change
CleanCycle == cmds # <<>> /\ cmds[1].returncode = 0 /\ cmds[1].stdout = <<>>

\* C22: a push is attempted only in a cycle that has created a commit; a
\* cycle that finds the status clean attempts none and leaves an unpushed
\* commit unpushed; the branch stops being ahead only by the successful push
\* of a cycle that committed.
C22_PushOnlyAfterNewCommit ==
  /\ []((Count("push") > 0 \/ acpc = "push") => Succeeded("commit"))
  /\ []((ahead /\ CleanCycle) => (Count("push") = 0 /\ acpc # "push"))
  /\ [][(ahead /\ ~ahead') =>
          /\ acpc = "push"
          /\ Succeeded("commit")
          /\ Last(cmds') = [cmd |-> "push", returncode |-> 0, stdout |-> <<>>]]_vars
  /\ [][(ahead /\ CleanCycle /\ CleanCycle') => ahead']_vars

C22_Witness ==
  /\ ~commit_only
  /\ dirty0
  /\ cycles = 1
  /\ ~dirty
  /\ ahead
  /\ CleanCycle
  /\ acpc = "sleep"

\* C23: once a git command of a firing's commit script hangs, the dispatcher
\* stays inside _trigger_commit for ever: timer_running stays true, no event
\* is taken off the queue, last_modified does not move and no firing follows.
C23_HungCommitBlocksTrigger ==
  /\ [](acpc = "hung" => (timer_running /\ \E t \in Threads : pc[t] = "run"))
  /\ [][acpc = "hung" =>
          /\ acpc' = "hung"
          /\ pc' = pc
          /\ timer_running'
          /\ fires' = fires
          /\ last_modified' = last_modified
          /\ Len(queue') >= Len(queue)]_vars

C23_Witness ==
  /\ acpc = "hung"
  /\ Len(fires) = 1
  /\ QueuedChange
  /\ now > fires[1].at + debounce_time
  /\ \A i \in DOMAIN queue : queue[i].at > fires[1].at

\* C24: in interval mode the process never exits; an iteration runs one
\* status, at most one stage, one commit and one push, and then sleeps; and
\* whatever failed in an iteration, the next iteration starts.
C24_LoopSurvivesFailures ==
  /\ [](~commit_only => (acpc # "exited" /\ exit_code = -1))
  /\ [](~commit_only =>
          /\ Count("status") <= 1 /\ Count("stage") <= 1
          /\ Count("commit") <= 1 /\ Count("push") <= 1
          /\ Count("commit") <= Count("stage")
          /\ acpc = "sleep" => Count("status") = 1)
  /\ \A k \in 0..(MaxCycles - 1) :
       (~commit_only /\ cycles = k /\ acpc # "main")
         ~> (cycles = k + 1 /\ acpc = "status" /\ cmds = <<>>)

\* an iteration starts after one whose status command failed
C24_Witness ==
  /\ ~commit_only
  /\ cycles >= 1
  /\ acpc = "status"
  /\ cmds = <<>>
  /\ status = None
  /\ dirty

\* C25: when the subscription cannot be set up, the process ends there: the
\* sleep loop is entered only with a started observer, and after the failure
\* no thread runs, no event is handled, no wait and no firing ever happens.
C25_StartupFailureIsFatal ==
  /\ [](main = "loop" => \A t \in Threads : pc[t] # "unstarted")
  /\ [](main = "failed" =>
          /\ \A t \in Threads : pc[t] = "unstarted"
          /\ queue = <<>> /\ evlog = <<>> /\ fires = <<>>
          /\ ~timer_running /\ acpc = "off" /\ cmds = <<>>)
  /\ [][main = "failed" => main' = "failed"]_vars

C25_Witness ==
  /\ main = "failed"
  /\ now >= debounce_time
  /\ fires = <<>>

\* C26: when the hook is done, a project that keeps scripts/watch_changes.py
\* (file_watcher_enabled = yes) also keeps the scripts/auto_commit.py that
\* the watcher runs.
C26_WatcherKeepsItsCommitScript ==
  hpc = "done" =>
    /\ ("scripts/watch_changes.py" \in project) <=> (options[1]["file_watcher_enabled"] = "yes")
    /\ ("scripts/watch_changes.py" \in project) => ("scripts/auto_commit.py" \in project)

\* the document path of the glossary: the category as given when it is a
\* non-empty name, and the slug of the title
SameTarget(r1, r2) ==
  /\ slugify(r1.title) = slugify(r2.title)
  /\ (IF r1.category.none THEN "" ELSE r1.category.name)
       = (IF r2.category.none THEN "" ELSE r2.category.name)

\* C27: create_document never changes or removes a document that exists: a
\* call whose target path exists returns None, and of the calls with the same
\* slug and category only the first one writes.
C27_NeverOverwrites ==
  /\ [][\A f \in doc_files : f \in doc_files']_vars
  /\ [](\A f, g \in doc_files : f.path = g.path => f = g)
  /\ [][Len(returns') > Len(returns) =>
          LET r == Last(returns')
          IN IF \E f \in doc_files : f.path = r.path
             THEN r.none /\ doc_files' = doc_files
             ELSE ~r.none /\ [path |-> r.path,
                              content |-> [title |-> r.title, description |-> r.description]]
                               \in doc_files']_vars
  /\ [](\A i, j \in DOMAIN returns : (i < j /\ SameTarget(returns[i], returns[j])) => returns[j].none)

C27_Witness ==
  /\ Len(returns) = 3
  /\ ~returns[1].none
  /\ returns[2].none /\ returns[3].none
  /\ returns[1].title # returns[2].title
  /\ returns[2].title # returns[3].title
  /\ returns[1].title # returns[3].title
  /\ returns[1].description # returns[2].description
  /\ SameTarget(returns[1], returns[2])
  /\ SameTarget(returns[1], returns[3])

\* the scanned documents that name category c, in frontmatter or inline
DocumentsIn(c) ==
  { md_files[i].path.rel_path : i \in
      { n \in DOMAIN md_files :
          /\ md_files[n].path.parent # "categories"
          /\ \/ md_files[n].inline.found /\ md_files[n].inline.name = c
             \/ \E k \in DOMAIN md_files[n].frontmatter.names :
                  md_files[n].frontmatter.names[k] = c } }

\* C28: on every category page each document is listed at most once, and
\* the count the index shows for a category is the number of distinct
\* documents in it.
C28_ListedOncePerCategory ==
  gpc = "done" =>
    /\ \A slug \in DOMAIN pages : \A i, j \in DOMAIN pages[slug] :
         pages[slug][i] = pages[slug][j] => i = j
    /\ \A c \in DOMAIN index_counts : index_counts[c] = Cardinality(DocumentsIn(c))
====
